---- MODULE Spec2Model ----
(***************************************************************************)
(* A model of nr.interface: interface classes with Method / Attribute /   *)
(* Property members, the conflict check of implements(), the reduction of *)
(* an implements-list, and the construction of an Implementation class    *)
(* (default assignment, validation, registration).                        *)
(*                                                                         *)
(* Python objects are modelled by value:                                   *)
(*   - an interface is its index in the sequence `interfaces` (the order  *)
(*     in which the classes were created);                                 *)
(*   - a member object is identified by the interface whose class body    *)
(*     created it and the name it was bound to;                            *)
(*   - a function object is identified by where it was written: 0 is a    *)
(*     function of the implementation's own class body, i > 0 the default *)
(*     function written in interface i's class body under the same name.  *)
(* The root classes (Interface, object) are not indexed; what they make   *)
(* visible on every interface is given by RootNames.                       *)
(***************************************************************************)
EXTENDS Integers, Sequences, FiniteSets, TLC

VARIABLES
  interfaces,       \* the interface classes, in the order of their creation
  implementations,  \* implementations[i]: the set interface i keeps
  types,            \* the implementation classes __metanew__ returned
  declared,         \* how many implementation class statements have run
  last              \* the latest statement or call, and how it ended

vars == <<interfaces, implementations, types, declared, last>>

----------------------------------------------------------------------------
(* Bounds of the model *)

\* Spec: interfaces, implementation classes, arguments of implements()
MaxIfaces == 2
MaxTypes == 1
MaxArgs == 2
\* SpecRegistry: interfaces and implementation classes
MaxRegIfaces == 2
MaxRegTypes == 2
\* SpecReduce: interfaces, length of the list
MaxReduceIfaces == 3
MaxReduceLen == 3
\* SpecConflict: interfaces
MaxConflictIfaces == 3
\* interfaces and class statements of SpecProperty
MaxPropIfaces == 1
MaxPropTypes == 1
\* interfaces and class statements of SpecHooks
MaxHookIfaces == 2
MaxHookTypes == 1
\* interfaces and class statements of SpecOverride
MaxOverrideIfaces == 2
MaxOverrideTypes == 1
\* direct bases of one interface
MaxBases == 2

----------------------------------------------------------------------------
(* Names.  dir() lists names sorted, so NameOrder is the order in which   *)
(* members_of() yields members.                                            *)

NameOrder == <<"__constructed__", "__init__", "_p", "m", "n">>

AllNames == {NameOrder[k] : k \in 1..Len(NameOrder)}

\* name.startswith('_') and not name.endswith('_')
PrivateNames == {"_p"}

\* the names Method.is_candidate() refuses, as far as they are in AllNames
CtorNames == {"__init__", "__constructed__"}

\* names every interface inherits from Interface and object
RootNames == {"__init__"}

Range(s) == {s[k] : k \in 1..Len(s)}

SetMin(S) == CHOOSE x \in S : \A y \in S : x <= y

----------------------------------------------------------------------------
(* Values of a class body.                                                 *)
(*   k = "none"      the name is not assigned                              *)
(*   k = "func"      a function; fn says which, tag its decorator          *)
(*   k = "attr"      the result of attr(): an unbound Attribute            *)
(*   k = "value"     any other value (a number, a string)                  *)
(*   k = "property"  a property; fget/fset/fdel are its slots              *)
(* A slot is -1 (None) or a function; gtag/stag/dtag the decorators.       *)

Tags == {"plain", "default", "final"}

RawValue(k, fn, tag) ==
  [k |-> k, fn |-> fn, tag |-> tag,
   fget |-> -1, fset |-> -1, fdel |-> -1,
   gtag |-> "plain", stag |-> "plain", dtag |-> "plain"]

RawNone == RawValue("none", -1, "plain")

RawFunc(tag) == RawValue("func", 0, tag)

RawAttr == RawValue("attr", -1, "plain")

RawPlain == RawValue("value", -1, "plain")

\* how a class body writes one slot of a property: not at all, or as a
\* function that is undecorated, @default or @final
SlotStates == {"absent"} \cup Tags

\* property(fget, fset, fdel) with the slots written as g, s and d say
RawProperty(g, s, d) ==
  [RawValue("property", -1, "plain") EXCEPT
     !.fget = IF g = "absent" THEN -1 ELSE 0,
     !.fset = IF s = "absent" THEN -1 ELSE 0,
     !.fdel = IF d = "absent" THEN -1 ELSE 0,
     !.gtag = IF g = "absent" THEN "plain" ELSE g,
     !.stag = IF s = "absent" THEN "plain" ELSE s,
     !.dtag = IF d = "absent" THEN "plain" ELSE d]

\* default(func) / final(func): final sets both marks
IsDefault(tag) == tag \in {"default", "final"}

IsFinal(tag) == tag = "final"

----------------------------------------------------------------------------
(* Members *)

NoMember ==
  [kind |-> "none", impl |-> FALSE, final |-> FALSE,
   getter_impl |-> "None", setter_impl |-> "None", deleter_impl |-> "None",
   getter_final |-> FALSE, setter_final |-> FALSE, deleter_final |-> FALSE]

\* a class attribute that is no member
OtherValue == [NoMember EXCEPT !.kind = "other"]

Method(impl, final) == [NoMember EXCEPT !.kind = "Method", !.impl = impl, !.final = final]

Attribute == [NoMember EXCEPT !.kind = "Attribute"]

Method_is_candidate(name, value) ==
  IF name \in PrivateNames THEN FALSE
  ELSE IF name \in CtorNames THEN FALSE
  ELSE value.k = "func"

Property_is_candidate(name, value) == value.k = "property"

\* a slot of Property.from_python_property: "impl" stands for the slot's function
SlotImpl(slot, tag, isGetter) ==
  IF slot # -1 /\ IsDefault(tag) THEN "impl"
  ELSE IF isGetter THEN "None"
  ELSE IF slot # -1 THEN "None"
  ELSE "NotImplemented"

from_python_property(value) ==
  [NoMember EXCEPT !.kind = "Property",
     !.getter_impl = SlotImpl(value.fget, value.gtag, TRUE),
     !.setter_impl = SlotImpl(value.fset, value.stag, FALSE),
     !.deleter_impl = SlotImpl(value.fdel, value.dtag, FALSE),
     !.getter_final = (value.fget # -1 /\ IsFinal(value.gtag)),
     !.setter_final = (value.fset # -1 /\ IsFinal(value.stag)),
     !.deleter_final = (value.fdel # -1 /\ IsFinal(value.dtag))]

\* a variant of is_pure_default that asks every slot for a default
is_pure_default_AllImpl(member) ==
  /\ member.getter_impl = "impl"
  /\ member.setter_impl = "impl"
  /\ member.deleter_impl = "impl"

is_pure_default(member) ==
  /\ member.getter_impl # "None"
  /\ member.setter_impl # "None"
  /\ member.deleter_impl # "None"

\* one entry of the loop of Interface.__metanew__ over vars(self)
BindMember(name, value) ==
  IF value.k = "none" THEN NoMember
  ELSE IF value.k = "attr" THEN Attribute
  ELSE IF Method_is_candidate(name, value)
    THEN Method(IsDefault(value.tag), IsFinal(value.tag))
  ELSE IF Property_is_candidate(name, value) THEN from_python_property(value)
  ELSE OtherValue

----------------------------------------------------------------------------
(* Class creation: the method resolution order type.__new__ computes      *)

RemoveHead(s, h) == IF s # <<>> /\ Head(s) = h THEN Tail(s) ELSE s

InTail(x, s) == s # <<>> /\ x \in Range(Tail(s))

RECURSIVE C3Merge(_)
C3Merge(seqs) ==
  LET ne == SelectSeq(seqs, LAMBDA s : s # <<>>)
  IN IF ne = <<>> THEN [ok |-> TRUE, mro |-> <<>>]
     ELSE LET cands == {k \in 1..Len(ne) :
                          \A j \in 1..Len(ne) : ~InTail(Head(ne[k]), ne[j])}
          IN IF cands = {} THEN [ok |-> FALSE, mro |-> <<>>]
             ELSE LET h == Head(ne[SetMin(cands)])
                      rest == C3Merge([j \in 1..Len(ne) |-> RemoveHead(ne[j], h)])
                  IN [ok |-> rest.ok, mro |-> <<h>> \o rest.mro]

\* the linearization of a new class with direct bases bs (interface indices)
Linearize(bs) ==
  C3Merge([k \in 1..(Len(bs) + 1) |->
             IF k <= Len(bs) THEN interfaces[bs[k]].mro ELSE bs])

issubclass(a, b) == b \in Range(interfaces[a].mro)

\* getattr(interface, name): the first class of the mro that has the name
Owners(i, name) ==
  {k \in 1..Len(interfaces[i].mro) :
     interfaces[interfaces[i].mro[k]].ns[name].kind # "none"}

hasattr(i, name) == Owners(i, name) # {} \/ name \in RootNames

\* the interface whose class body holds what getattr finds (0: a root class)
OwnerOf(i, name) ==
  IF Owners(i, name) = {} THEN 0
  ELSE interfaces[i].mro[SetMin(Owners(i, name))]

getattr(i, name) ==
  IF OwnerOf(i, name) = 0 THEN OtherValue
  ELSE interfaces[OwnerOf(i, name)].ns[name]

IsMember(entry) == entry.kind \in {"Method", "Attribute", "Property"}

\* members_of(interface), as the sequence of names it yields members for
members_of(i) ==
  SelectSeq(NameOrder, LAMBDA name : hasattr(i, name) /\ IsMember(getattr(i, name)))

----------------------------------------------------------------------------
(* has_member, get_conflicting_members, implements, reduce_interfaces     *)

\* a variant of has_member that accepts methods only
has_member_MethodOnly(i, name) ==
  IF name \in PrivateNames \/ name \in {"__new__", "__init__"} THEN FALSE
  ELSE IF ~hasattr(i, name) THEN FALSE
  ELSE getattr(i, name).kind = "Method"

has_member(i, name) ==
  IF name \in PrivateNames \/ name \in {"__new__", "__init__"} THEN FALSE
  ELSE IF ~hasattr(i, name) THEN FALSE
  ELSE getattr(i, name).kind \in {"Method", "Attribute"}

\* a variant of NotSameObject that compares the kinds of the two objects
NotSameObject_ByKind(a, b, name) ==
  getattr(a, name).kind # getattr(b, name).kind

\* "am is not bm": bm is the object getattr(b, am.name) finds
NotSameObject(a, b, name) ==
  \/ ~IsMember(getattr(b, name))
  \/ OwnerOf(a, name) # OwnerOf(b, name)

\* the names the loop over members_of(a) appends to conflicts
ConflictsOf(a, b) ==
  SelectSeq(members_of(a), LAMBDA name : hasattr(b, name) /\ NotSameObject(a, b, name))

\* a variant of get_conflicting_members without the subclass test
get_conflicting_members_Unrelated(a, b) == ConflictsOf(a, b)

\* the result as a sequence of names; the empty set() of the early return
\* and the empty list are both <<>>
get_conflicting_members(a, b) ==
  IF issubclass(a, b) \/ issubclass(b, a) THEN <<>>
  ELSE ConflictsOf(a, b)

NoConflict == [list |-> <<>>, raised |-> FALSE, a |-> 0, b |-> 0]

\* one x of the loop of implements(): against every y already in the list
ImplementsOne(acc, x) ==
  LET bad == {k \in 1..Len(acc.list) :
                get_conflicting_members(x, acc.list[k]) # <<>>}
  IN IF bad # {}
       THEN [acc EXCEPT !.raised = TRUE, !.a = x, !.b = acc.list[SetMin(bad)]]
     ELSE IF x \in Range(acc.list) THEN acc
     ELSE [acc EXCEPT !.list = Append(@, x)]

\* implements(*xs) on the class-level list acc
RECURSIVE implements(_, _)
implements(acc, xs) ==
  IF xs = <<>> \/ acc.raised THEN acc
  ELSE implements(ImplementsOne(acc, Head(xs)), Tail(xs))

\* a class body calling implements(args[1..cut]) and then
\* implements(args[cut+1..]); cut = 0 is a single call
ClassBody(args, cut) ==
  LET first == implements(NoConflict, SubSeq(args, 1, cut))
  IN implements(first, SubSeq(args, cut + 1, Len(args)))

\* a variant of ReduceOne that keeps the parent it meets
ReduceOne_KeepParent(result, interface) ==
  IF \E k \in 1..Len(result) :
       issubclass(interface, result[k]) \/ issubclass(result[k], interface)
    THEN result
  ELSE Append(result, interface)

\* the inner loop of reduce_interfaces for one interface
ReduceOne(result, interface) ==
  LET hit == {k \in 1..Len(result) :
                issubclass(interface, result[k]) \/ issubclass(result[k], interface)}
  IN IF hit = {} THEN Append(result, interface)
     ELSE LET k == SetMin(hit)
          IN IF issubclass(interface, result[k])
               THEN [result EXCEPT ![k] = interface]
             ELSE result

RECURSIVE ReduceFrom(_, _)
ReduceFrom(result, rest) ==
  IF rest = <<>> THEN result
  ELSE ReduceFrom(ReduceOne(result, Head(rest)), Tail(rest))

reduce_interfaces(list) == ReduceFrom(<<>>, list)

----------------------------------------------------------------------------
(* Property.satisfy *)

NoError == [what |-> "", name |-> ""]

Error(what, name) == [what |-> what, name |-> name]

\* a variant of SlotOf that never falls back to the default
SlotOf_ConcreteOnly(concrete, impl, owner) == concrete

\* the slot of the property satisfy() returns: the concrete function if
\* there is one, else the default (owner's function) if there is one
SlotOf(concrete, impl, owner) ==
  IF concrete = -1 /\ impl = "impl" THEN owner ELSE concrete

\* a variant of satisfy without the tests of final slots
satisfy_NoFinal(member, owner, name, value) ==
  LET fail(what) == [error |-> Error(what, name), value |-> value]
  IN IF member.getter_impl = "None" /\ value.fget = -1
       THEN fail("missing getter")
     ELSE IF member.setter_impl = "None" /\ value.fset = -1
       THEN fail("missing setter")
     ELSE IF member.deleter_impl = "None" /\ value.fdel = -1
       THEN fail("missing deleter")
     ELSE [error |-> NoError,
           value |-> [value EXCEPT
                        !.fget = SlotOf(value.fget, member.getter_impl, owner),
                        !.fset = SlotOf(value.fset, member.setter_impl, owner),
                        !.fdel = SlotOf(value.fdel, member.deleter_impl, owner)]]

\* member.satisfy(value); owner is the interface that declares member
satisfy(member, owner, name, value) ==
  LET fail(what) == [error |-> Error(what, name), value |-> value]
  IN IF value.fget # -1 /\ member.getter_final
       THEN fail("getter must not be implemented")
     ELSE IF value.fset # -1 /\ member.setter_final
       THEN fail("setter must not be implemented")
     ELSE IF value.fdel # -1 /\ member.deleter_final
       THEN fail("deleter must not be implemented")
     ELSE IF member.getter_impl = "None" /\ value.fget = -1
       THEN fail("missing getter")
     ELSE IF member.setter_impl = "None" /\ value.fset = -1
       THEN fail("missing setter")
     ELSE IF member.deleter_impl = "None" /\ value.fdel = -1
       THEN fail("missing deleter")
     ELSE [error |-> NoError,
           value |-> [value EXCEPT
                        !.fget = SlotOf(value.fget, member.getter_impl, owner),
                        !.fset = SlotOf(value.fset, member.setter_impl, owner),
                        !.fdel = SlotOf(value.fdel, member.deleter_impl, owner)]]

----------------------------------------------------------------------------
(* Implementation.__metanew__ *)

\* the function object member.impl of the member getattr(i, name)
DefaultFunction(i, name) == RawValue("func", OwnerOf(i, name), "default")

\* member.impl != attrs[member.name], for a name that is in attrs
NotTheDefault(value, i, name) ==
  ~(value.k = "func" /\ value.fn = OwnerOf(i, name))

\* a variant of AssignOne that assigns the default over a supplied function
AssignOne_Overwrite(attrs, i, name) ==
  LET member == getattr(i, name)
  IN IF member.kind = "Method" /\ member.impl
       THEN [attrs EXCEPT ![name] = DefaultFunction(i, name)]
     ELSE attrs

\* "Assign default implementations", one member
AssignOne(attrs, i, name) ==
  LET member == getattr(i, name)
  IN IF member.kind = "Method" /\ attrs[name].k = "none" /\ member.impl
       THEN [attrs EXCEPT ![name] = DefaultFunction(i, name)]
     ELSE attrs

RECURSIVE AssignMembers(_, _, _)
AssignMembers(attrs, i, names) ==
  IF names = <<>> THEN attrs
  ELSE AssignMembers(AssignOne(attrs, i, Head(names)), i, Tail(names))

RECURSIVE AssignDefaults(_, _)
AssignDefaults(attrs, impl) ==
  IF impl = <<>> THEN attrs
  ELSE AssignDefaults(AssignMembers(attrs, Head(impl), members_of(Head(impl))),
                      Tail(impl))

\* a variant of CheckMethod that takes an absent method for a satisfied one
CheckMethod_NoMissing(attrs, i, name) ==
  LET member == getattr(i, name)
      value == attrs[name]
  IN IF member.final /\ value.k # "none" /\ NotTheDefault(value, i, name)
       THEN Error("implemented final method", name)
     ELSE IF value.k \notin {"none", "func"} THEN Error("expected method", name)
     ELSE NoError

\* a variant of CheckMethod without the test of final methods
CheckMethod_NoFinal(attrs, i, name) ==
  IF attrs[name].k = "none" THEN Error("missing method", name)
  ELSE IF attrs[name].k # "func" THEN Error("expected method", name)
  ELSE NoError

\* the branch of the validation loop for a Method member
CheckMethod(attrs, i, name) ==
  LET member == getattr(i, name)
      value == attrs[name]
  IN IF member.final /\ value.k # "none" /\ NotTheDefault(value, i, name)
       THEN Error("implemented final method", name)
     ELSE IF value.k = "none" THEN Error("missing method", name)
     ELSE IF value.k # "func" THEN Error("expected method", name)
     ELSE NoError

\* the branch of the validation loop for a Property member
CheckProperty(attrs, i, name) ==
  LET member == getattr(i, name)
      value == attrs[name]
  IN IF value.k = "none"
       THEN IF ~is_pure_default(member) THEN Error("missing property", name)
            ELSE NoError
     ELSE IF value.k # "property" THEN Error("expected property", name)
     ELSE satisfy(member, OwnerOf(i, name), name, value).error

CheckMember(attrs, i, name) ==
  LET kind == getattr(i, name).kind
  IN IF kind = "Method" THEN CheckMethod(attrs, i, name)
     ELSE IF kind = "Property" THEN CheckProperty(attrs, i, name)
     ELSE NoError

\* the errors list of one interface, in the order of members_of
CheckInterface(attrs, i) ==
  LET names == members_of(i)
      all == [k \in 1..Len(names) |-> CheckMember(attrs, i, names[k])]
  IN SelectSeq(all, LAMBDA e : e # NoError)

RECURSIVE AllErrors(_, _)
AllErrors(attrs, impl) ==
  IF impl = <<>> THEN <<>>
  ELSE CheckInterface(attrs, Head(impl)) \o AllErrors(attrs, Tail(impl))

\* a variant of Validate that raises after the loop over the interfaces
Validate_Accumulate(attrs, impl) ==
  LET bad == {k \in 1..Len(impl) : CheckInterface(attrs, impl[k]) # <<>>}
  IN IF bad = {} THEN [interface |-> 0, errors |-> <<>>]
     ELSE [interface |-> impl[SetMin(bad)], errors |-> AllErrors(attrs, impl)]

\* "Ensure all interface members are satisfied": the raise is inside the
\* loop over the interfaces, so it reports the first interface with errors
Validate(attrs, impl) ==
  LET bad == {k \in 1..Len(impl) : CheckInterface(attrs, impl[k]) # <<>>}
  IN IF bad = {} THEN [interface |-> 0, errors |-> <<>>]
     ELSE [interface |-> impl[SetMin(bad)],
           errors |-> CheckInterface(attrs, impl[SetMin(bad)])]

\* setattr(self, member.name, value) of the validation loop, one member
InstallOne(ns, attrs, i, name) ==
  LET member == getattr(i, name)
      res == satisfy(member, OwnerOf(i, name), name, attrs[name])
  IN IF member.kind = "Property" /\ attrs[name].k = "property" /\ res.error = NoError
       THEN [ns EXCEPT ![name] = res.value]
     ELSE ns

RECURSIVE InstallMembers(_, _, _, _)
InstallMembers(ns, attrs, i, names) ==
  IF names = <<>> THEN ns
  ELSE InstallMembers(InstallOne(ns, attrs, i, Head(names)), attrs, i, Tail(names))

\* vars(self) once the validation loop has passed every interface
RECURSIVE InstallProperties(_, _, _)
InstallProperties(ns, attrs, impl) ==
  IF impl = <<>> THEN ns
  ELSE InstallProperties(InstallMembers(ns, attrs, Head(impl), members_of(Head(impl))),
                         attrs, Tail(impl))

\* the keys of vars(self) that are tagged @override and override nothing
BadOverrides(ns, impl) ==
  SelectSeq(NameOrder, LAMBDA key :
    /\ ns[key].k = "func"
    /\ ns[key].tag = "override"
    /\ \A k \in 1..Len(impl) : ~has_member(impl[k], key))

\* the key the loop over vars(self) can meet first among those of bad: the
\* order of vars(self) is the order in which the class body assigns
FirstKeys(bad) == IF bad = <<>> THEN {""} ELSE Range(bad)

\* x.__bases__ of every x of a level of the registration walk
RECURSIVE BasesOf(_)
BasesOf(level) ==
  IF level = <<>> THEN <<>>
  ELSE interfaces[Head(level)].bases \o BasesOf(Tail(level))

\* a variant of Walk that stops at the interfaces it starts from
Walk_NoBases(level) == Range(level)

\* every class the walk "bases = [interface]; while bases: ..." visits
RECURSIVE Walk(_)
Walk(level) ==
  IF level = <<>> THEN {} ELSE Range(level) \cup Walk(BasesOf(level))

\* a variant of Register that does not walk to the parents
Register_NoParents(impls, impl, T) ==
  [i \in 1..Len(impls) |->
     IF i \in Range(impl) THEN impls[i] \cup {T} ELSE impls[i]]

\* "add it to the implementations set of all interfaces and their parents"
Register(impls, impl, T) ==
  [i \in 1..Len(impls) |->
     IF \E k \in 1..Len(impl) : i \in Walk(<<impl[k]>>)
       THEN impls[i] \cup {T} ELSE impls[i]]

\* a variant of RegistryAfter that registers before the checks
RegistryAfter_Always(error, impl, T) == Register(implementations, impl, T)

\* the registry once __metanew__ has returned or raised
RegistryAfter(error, impl, T) ==
  IF error = "none" THEN Register(implementations, impl, T) ELSE implementations

\* a variant of Implementation_implements with the subclass test reversed
Implementation_implements_Reversed(T, interface) ==
  \E k \in 1..Len(types[T].implements) :
    issubclass(interface, types[T].implements[k])

\* cls.implements(interface): scans cls.__implements__, the list as the
\* class body left it
Implementation_implements(T, interface) ==
  \E k \in 1..Len(types[T].implements) :
    issubclass(types[T].implements[k], interface)

\* Interface.implemented_by(instance); instance is 0 for a value that is no
\* instance of an Implementation class, else the class it is an instance of
implemented_by(cls, instance) ==
  IF instance = 0 THEN FALSE
  ELSE Implementation_implements(instance, cls)

\* the calls interface.<hook>(self) of one loop of Implementation.__init__
\* that reach a function of an interface; owner is the interface whose
\* class body holds the function.  (Without one, __init__ resolves to
\* object.__init__, which does nothing, and __constructed__ to nothing.)
RECURSIVE HookCalls(_, _)
HookCalls(list, hook) ==
  IF list = <<>> THEN <<>>
  ELSE (IF hasattr(Head(list), hook) /\ OwnerOf(Head(list), hook) # 0
          THEN <<[hook |-> hook, interface |-> Head(list),
                  owner |-> OwnerOf(Head(list), hook)]>>
        ELSE <<>>) \o HookCalls(Tail(list), hook)

\* a variant of Implementation_init that runs both hooks of an interface
\* before it goes to the next interface
RECURSIVE Implementation_init_Interleaved(_)
Implementation_init_Interleaved(list) ==
  IF list = <<>> THEN <<>>
  ELSE HookCalls(<<Head(list)>>, "__init__")
         \o HookCalls(<<Head(list)>>, "__constructed__")
         \o Implementation_init_Interleaved(Tail(list))

\* Implementation.__init__(self), for self.__implements__ = list: the
\* sequence of hook calls it makes
Implementation_init(list) ==
  HookCalls(list, "__init__") \o HookCalls(list, "__constructed__")

\* which exception __metanew__ ends with: v is what the validation loop
\* found, bad the keys the override check rejects
ErrorOf(v, bad) ==
  IF v.interface # 0 THEN "ImplementationError"
  ELSE IF bad # <<>> THEN "RuntimeError"
  ELSE "none"

----------------------------------------------------------------------------------------------------------------------------------------
(* Inputs *)

\* the sequences over S of length at most n
SeqsUpTo(S, n) == UNION {[1..k -> S] : k \in 0..n}

Distinct(s) == \A j, k \in 1..Len(s) : j # k => s[j] # s[k]

Ifaces == 1..Len(interfaces)

\* the base lists a new interface can name: interfaces that exist already
BaseLists == {bs \in SeqsUpTo(Ifaces, MaxBases) : Distinct(bs)}

EmptyBody == [x \in AllNames |-> RawNone]

\* the class bodies that assign values of V to names of N and nothing else
Bodies(N, V) ==
  {[x \in AllNames |-> IF x \in N THEN f[x] ELSE RawNone] :
     f \in [N -> V \cup {RawNone}]}

\* the class bodies that assign one value of V to one name of N
OneLiners(N, V) ==
  {[EmptyBody EXCEPT ![x] = v] : x \in N, v \in V}

\* interface bodies of Spec: required, default and final methods m and n
MethodBodies == Bodies({"m", "n"}, {RawFunc(t) : t \in Tags})

\* interface bodies of SpecRegistry: a required or a default method m
RegistryBodies == Bodies({"m"}, {RawFunc("plain"), RawFunc("default")})

\* interface bodies of SpecConflict: nothing, or one of: a method, an
\* attribute or a plain class value m, a method n
ConflictBodies ==
  {EmptyBody} \cup OneLiners({"m"}, {RawFunc("plain"), RawAttr, RawPlain})
              \cup OneLiners({"n"}, {RawFunc("plain")})

\* interface bodies of SpecProperty: nothing, or a property m with every
\* combination of slots
PropertyBodies ==
  {EmptyBody} \cup
  {[EmptyBody EXCEPT !["m"] = RawProperty(g, s, d)] : g, s, d \in SlotStates}

\* implementation bodies of SpecProperty: for m nothing, a function, or a
\* property with any of its slots
PropertyTypeBodies ==
  {[EmptyBody EXCEPT !["m"] = v] :
     v \in {RawNone, RawFunc("plain")} \cup
           {RawProperty(g, s, d) : g, s, d \in {"absent", "plain"}}}

\* interface bodies of SpecHooks: an __init__ function, a __constructed__
\* function, both or neither
HookBodies == Bodies({"__init__", "__constructed__"}, {RawFunc("plain")})

\* interface bodies of SpecOverride: nothing, or one of: a required or a
\* default method m, an attribute m, a property m with a default getter, a
\* plain class value m, a method n, a private function _p
OverrideBodies ==
  {EmptyBody}
    \cup OneLiners({"m"}, {RawFunc("plain"), RawFunc("default"), RawAttr,
                           RawProperty("default", "absent", "absent"), RawPlain})
    \cup OneLiners({"n"}, {RawFunc("plain")})
    \cup OneLiners({"_p"}, {RawFunc("plain")})

\* implementation bodies of SpecOverride: m left out, a function or a
\* function tagged @override; n and _p left out or tagged functions
OverrideTypeBodies ==
  {[EmptyBody EXCEPT !["m"] = vm, !["n"] = vn, !["_p"] = vp] :
     vm \in {RawNone, RawFunc("plain"), RawFunc("override")},
     vn \in {RawNone, RawFunc("override")},
     vp \in {RawNone, RawFunc("override")}}

\* the default functions interfaces declare under name
DefaultsFor(name) ==
  {RawValue("func", i, "default") : i \in
     {j \in Ifaces : interfaces[j].ns[name].kind = "Method" /\ interfaces[j].ns[name].impl}}

\* implementation bodies of Spec: for m and n nothing, an own function,
\* the default function of an interface, or a value that is no function
TypeBodies ==
  {[EmptyBody EXCEPT !["m"] = vm, !["n"] = vn] :
     vm \in {RawNone, RawFunc("plain"), RawPlain} \cup DefaultsFor("m"),
     vn \in {RawNone, RawFunc("plain"), RawPlain} \cup DefaultsFor("n")}

\* implementation bodies of SpecRegistry: for m nothing, an own function,
\* or an own function tagged @override
RegistryTypeBodies ==
  {[EmptyBody EXCEPT !["m"] = vm] :
     vm \in {RawNone, RawFunc("plain"), RawFunc("override")}}

\* where a class body can split args into two calls of implements()
Cuts(args) == 0..(IF Len(args) = 0 THEN 0 ELSE Len(args) - 1)

----------------------------------------------------------------------------
(* The state machine *)

NoLast ==
  [op |-> "none", args |-> <<>>, cut |-> 0, body |-> EmptyBody,
   error |-> "none", a |-> 0, b |-> 0, names |-> <<>>,
   interface |-> 0, errors |-> <<>>, type |-> 0, result |-> <<>>,
   answer |-> FALSE, calls |-> <<>>]

Init ==
  /\ interfaces = <<>>
  /\ implementations = <<>>
  /\ types = <<>>
  /\ declared = 0
  /\ last = NoLast

\* class I(*bs): <body>, through Interface.__metanew__
DefineInterface(limit, bs, body) ==
  /\ Len(interfaces) < limit
  /\ Linearize(bs).ok
  /\ interfaces' = Append(interfaces,
       [bases |-> bs,
        mro |-> <<Len(interfaces) + 1>> \o Linearize(bs).mro,
        ns |-> [x \in AllNames |-> BindMember(x, body[x])]])
  /\ implementations' = Append(implementations, {})
  /\ last' = [NoLast EXCEPT !.op = "define"]
  /\ UNCHANGED <<types, declared>>

\* class T(Implementation): implements(...); implements(...); <body>
\* The class body runs first (cb); then Implementation.__metanew__ reduces
\* the list (impl), assigns the defaults (attrs), validates (v; ns is
\* vars(self) after it), checks the overrides (bad) and registers.
DeclareType(limit, args, cut, body) ==
  /\ declared < limit
  /\ declared' = declared + 1
  /\ \E cb \in {ClassBody(args, cut)} :
     \E impl \in {reduce_interfaces(cb.list)} :
     \E attrs \in {AssignDefaults(body, impl)} :
     \E v \in {Validate(attrs, impl)} :
     \E ns \in {InstallProperties(attrs, attrs, impl)} :
     \E bad \in {BadOverrides(ns, impl)} :
     \E key \in FirstKeys(bad) :
     \E error \in {ErrorOf(v, bad)} :
       LET T == Len(types) + 1
           call == [NoLast EXCEPT !.op = "declare", !.args = args,
                                  !.cut = cut, !.body = body]
       IN IF cb.raised
            THEN /\ last' = [call EXCEPT
                               !.error = "ConflictingInterfacesError",
                               !.a = cb.a, !.b = cb.b,
                               !.names = get_conflicting_members(cb.a, cb.b)]
                 /\ UNCHANGED <<interfaces, implementations, types>>
            ELSE /\ types' = IF error = "none"
                               THEN Append(types, [implements |-> cb.list, ns |-> ns])
                             ELSE types
                 /\ implementations' = RegistryAfter(error, impl, T)
                 /\ last' = [call EXCEPT
                               !.error = error,
                               !.interface = v.interface,
                               !.errors = v.errors,
                               !.names = IF error = "RuntimeError"
                                           THEN <<key>> ELSE <<>>,
                               !.type = IF error = "none" THEN T ELSE 0]
                 /\ UNCHANGED interfaces

\* a call reduce_interfaces(list)
ReduceCall(list) ==
  /\ last' = [NoLast EXCEPT !.op = "reduce", !.args = list,
                            !.result = reduce_interfaces(list)]
  /\ UNCHANGED <<interfaces, implementations, types, declared>>

\* a call get_conflicting_members(a, b)
ConflictCall(a, b) ==
  /\ last' = [NoLast EXCEPT !.op = "conflicts", !.a = a, !.b = b,
                            !.names = get_conflicting_members(a, b)]
  /\ UNCHANGED <<interfaces, implementations, types, declared>>

\* a call cls.implemented_by(instance)
ImplementedByCall(cls, instance) ==
  /\ last' = [NoLast EXCEPT !.op = "implemented_by", !.a = cls,
                            !.type = instance,
                            !.answer = implemented_by(cls, instance)]
  /\ UNCHANGED <<interfaces, implementations, types, declared>>

\* T(): an instance of class T is constructed; T defines no __init__ of
\* its own, so Implementation.__init__ runs
Construct(T) ==
  /\ last' = [NoLast EXCEPT !.op = "construct", !.type = T,
                            !.calls = Implementation_init(types[T].implements)]
  /\ UNCHANGED <<interfaces, implementations, types, declared>>

Next ==
  \/ \E bs \in BaseLists, body \in MethodBodies :
       DefineInterface(MaxIfaces, bs, body)
  \/ \E args \in SeqsUpTo(Ifaces, MaxArgs), body \in TypeBodies :
       \E cut \in Cuts(args) : DeclareType(MaxTypes, args, cut, body)

Spec == Init /\ [][Next]_vars

NextRegistry ==
  \/ \E bs \in BaseLists, body \in RegistryBodies :
       DefineInterface(MaxRegIfaces, bs, body)
  \/ \E args \in SeqsUpTo(Ifaces, MaxRegIfaces), body \in RegistryTypeBodies :
       \E cut \in Cuts(args) : DeclareType(MaxRegTypes, args, cut, body)

SpecRegistry == Init /\ [][NextRegistry]_vars

NextQuery ==
  \/ \E bs \in BaseLists, body \in RegistryBodies :
       DefineInterface(MaxRegIfaces, bs, body)
  \/ \E args \in SeqsUpTo(Ifaces, MaxRegIfaces), body \in RegistryTypeBodies :
       \E cut \in Cuts(args) : DeclareType(MaxRegTypes, args, cut, body)
  \/ \E cls \in Ifaces, instance \in 0..Len(types) :
       ImplementedByCall(cls, instance)

SpecQuery == Init /\ [][NextQuery]_vars

NextProperty ==
  \/ \E bs \in BaseLists, body \in PropertyBodies :
       DefineInterface(MaxPropIfaces, bs, body)
  \/ \E args \in SeqsUpTo(Ifaces, MaxPropIfaces), body \in PropertyTypeBodies :
       \E cut \in Cuts(args) : DeclareType(MaxPropTypes, args, cut, body)

SpecProperty == Init /\ [][NextProperty]_vars

NextHooks ==
  \/ \E bs \in BaseLists, body \in HookBodies :
       DefineInterface(MaxHookIfaces, bs, body)
  \/ \E args \in SeqsUpTo(Ifaces, MaxHookIfaces) :
       \E cut \in Cuts(args) : DeclareType(MaxHookTypes, args, cut, EmptyBody)
  \/ \E T \in 1..Len(types) : Construct(T)

SpecHooks == Init /\ [][NextHooks]_vars

NextOverride ==
  \/ \E bs \in BaseLists, body \in OverrideBodies :
       DefineInterface(MaxOverrideIfaces, bs, body)
  \/ \E args \in SeqsUpTo(Ifaces, MaxOverrideIfaces), body \in OverrideTypeBodies :
       \E cut \in Cuts(args) : DeclareType(MaxOverrideTypes, args, cut, body)

SpecOverride == Init /\ [][NextOverride]_vars

NextReduce ==
  \/ \E bs \in BaseLists : DefineInterface(MaxReduceIfaces, bs, EmptyBody)
  \/ \E list \in SeqsUpTo(Ifaces, MaxReduceLen) : ReduceCall(list)

SpecReduce == Init /\ [][NextReduce]_vars

NextConflict ==
  \/ \E bs \in BaseLists, body \in ConflictBodies :
       DefineInterface(MaxConflictIfaces, bs, body)
  \/ \E a, b \in Ifaces : ConflictCall(a, b)

SpecConflict == Init /\ [][NextConflict]_vars

----------------------------------------------------------------------------
(* What the latest class statement went through, recomputed from its      *)
(* inputs: used to state the claims.                                       *)

\* the statement got past its class body, into Implementation.__metanew__
ReachedMetanew ==
  last.op = "declare" /\ last.error # "ConflictingInterfacesError"

LastDeclared == ClassBody(last.args, last.cut).list

LastReduced == reduce_interfaces(LastDeclared)

LastAttrs == AssignDefaults(last.body, LastReduced)

\* the positions of the reduced list whose interface has unsatisfied members
Offenders == {k \in 1..Len(LastReduced) : CheckInterface(LastAttrs, LastReduced[k]) # <<>>}

Count(seq, e) == Cardinality({k \in 1..Len(seq) : seq[k] = e})

\* name is a Method member of interface i that has no default
RequiredMethod(i, name) ==
  /\ hasattr(i, name)
  /\ getattr(i, name).kind = "Method"
  /\ ~getattr(i, name).impl

FinalMethod(i, name) ==
  /\ hasattr(i, name)
  /\ getattr(i, name).kind = "Method"
  /\ getattr(i, name).final

\* the class body assigns to name a function that is not i's default for it
OwnBody(i, name) ==
  last.body[name].k = "func" /\ last.body[name].fn # OwnerOf(i, name)

\* the class body leaves name out, or assigns exactly i's default for it
DefaultOrOmitted(i, name) ==
  \/ last.body[name].k = "none"
  \/ last.body[name].k = "func" /\ last.body[name].fn = OwnerOf(i, name)

NamedIn(errors, name) == \E k \in 1..Len(errors) : errors[k].name = name

----------------------------------------------------------------------------
(* C1 *)

\* C1 as stated: whenever a declaration lists an interface I and omits a
\* required method m of I, it ends in an ImplementationError whose list
\* holds exactly one "missing method" entry naming m.
C1_AsStated ==
  ReachedMetanew =>
    \A i \in Range(last.args), name \in AllNames :
      (RequiredMethod(i, name) /\ last.body[name].k = "none")
        => /\ last.error = "ImplementationError"
           /\ Count(last.errors, Error("missing method", name)) = 1

\* C1, amended: if interface I remains after reduction and is the first
\* remaining interface with an unsatisfied member, and m is a required
\* method among the members of I whose name the class body omits and for
\* which no remaining interface has assigned a default, then the
\* declaration ends in an ImplementationError for I whose list holds
\* exactly one "missing method" entry naming m.
C1_MissingMethod ==
  ReachedMetanew =>
    \A k \in 1..Len(LastReduced), name \in AllNames :
      ( /\ RequiredMethod(LastReduced[k], name)
        /\ last.body[name].k = "none"
        /\ LastAttrs[name].k = "none"
        /\ \A j \in 1..(k - 1) : j \notin Offenders )
        => /\ last.error = "ImplementationError"
           /\ last.interface = LastReduced[k]
           /\ Count(last.errors, Error("missing method", name)) = 1

\* a declaration that omits a required method and a second member of the
\* same interface that is also unsatisfied
C1_Witness ==
  /\ ReachedMetanew
  /\ \E k \in 1..Len(LastReduced), name \in AllNames :
       /\ RequiredMethod(LastReduced[k], name)
       /\ last.body[name].k = "none"
       /\ last.interface = LastReduced[k]
       /\ Len(last.errors) = 2
       /\ Count(last.errors, Error("missing method", name)) = 1

----------------------------------------------------------------------------
(* C2 *)

\* C2 as stated: for a final method m of a listed interface, an own body
\* ends in an ImplementationError with an "implemented final method" entry
\* for m; the default body or no body gives no complaint about m and, when
\* the declaration succeeds, the default as the type's m.
C2_AsStated ==
  ReachedMetanew =>
    \A i \in Range(last.args), name \in AllNames :
      FinalMethod(i, name) =>
        /\ OwnBody(i, name) =>
             /\ last.error = "ImplementationError"
             /\ Count(last.errors, Error("implemented final method", name)) = 1
        /\ DefaultOrOmitted(i, name) =>
             /\ ~NamedIn(last.errors, name)
             /\ last.error = "none" =>
                  types[last.type].ns[name] = DefaultFunction(i, name)

\* C2, amended: for a final method m among the members of an interface I
\* that remains after reduction: if the class body supplies an own body for
\* m and no remaining interface before I has an unsatisfied member, the
\* declaration ends in an ImplementationError for I with an "implemented
\* final method" entry for m; if the class body supplies exactly the
\* default or omits m, and every remaining interface resolves the name to
\* that same member, then no entry of the error names m and, when the
\* declaration succeeds, the type's m is the default.
C2_FinalMethod ==
  ReachedMetanew =>
    \A k \in 1..Len(LastReduced), name \in AllNames :
      FinalMethod(LastReduced[k], name) =>
        /\ ( /\ OwnBody(LastReduced[k], name)
             /\ \A j \in 1..(k - 1) : j \notin Offenders )
             => /\ last.error = "ImplementationError"
                /\ last.interface = LastReduced[k]
                /\ Count(last.errors, Error("implemented final method", name)) = 1
        /\ ( /\ DefaultOrOmitted(LastReduced[k], name)
             /\ \A j \in 1..Len(LastReduced) :
                  hasattr(LastReduced[j], name) =>
                    OwnerOf(LastReduced[j], name) = OwnerOf(LastReduced[k], name) )
             => /\ ~NamedIn(last.errors, name)
                /\ last.error = "none" =>
                     types[last.type].ns[name] = DefaultFunction(LastReduced[k], name)

\* a declaration that succeeded with a final method left out
C2_Witness ==
  /\ ReachedMetanew
  /\ last.error = "none"
  /\ \E k \in 1..Len(LastReduced), name \in AllNames :
       /\ FinalMethod(LastReduced[k], name)
       /\ last.body[name].k = "none"
       /\ types[last.type].ns[name] = DefaultFunction(LastReduced[k], name)

----------------------------------------------------------------------------
(* C3 *)

\* C3 as stated: when more than one remaining interface has unsatisfied
\* members, the ImplementationError carries the violations of all of them.
C3_AsStated ==
  (ReachedMetanew /\ Cardinality(Offenders) > 1) =>
    /\ last.error = "ImplementationError"
    /\ last.interface = LastReduced[SetMin(Offenders)]
    /\ \A k \in Offenders :
         Range(CheckInterface(LastAttrs, LastReduced[k])) \subseteq Range(last.errors)

\* C3, amended: when one or more remaining interfaces have unsatisfied
\* members, the ImplementationError carries the violations of the first of
\* them in the order of the reduced list, and of no other interface; its
\* interface field is that first offending interface.
C3_FirstOffender ==
  (ReachedMetanew /\ Offenders # {}) =>
    /\ last.error = "ImplementationError"
    /\ last.interface = LastReduced[SetMin(Offenders)]
    /\ last.errors = CheckInterface(LastAttrs, LastReduced[SetMin(Offenders)])

\* two remaining interfaces have unsatisfied members and an error came
C3_Witness ==
  /\ ReachedMetanew
  /\ Cardinality(Offenders) > 1
  /\ last.error = "ImplementationError"

----------------------------------------------------------------------------
(* C6 *)

\* interfaces a and b are unrelated and each declares, in its own class
\* body, a member called name
OwnClash(a, b, name) ==
  /\ a # b
  /\ ~issubclass(a, b)
  /\ ~issubclass(b, a)
  /\ IsMember(interfaces[a].ns[name])
  /\ IsMember(interfaces[b].ns[name])

\* C6: a class statement whose implements() calls name two unrelated
\* interfaces that each declare their own member of one name ends in a
\* ConflictingInterfacesError that carries both interfaces and lists that
\* name, in either order of the two and in one call or in two; no class is
\* created and neither interface's implementations set holds it.
C6_ConflictingInterfaces ==
  last.op = "declare" =>
    \A a, b \in Ifaces, name \in AllNames :
      (OwnClash(a, b, name) /\ Range(last.args) = {a, b})
        => /\ last.error = "ConflictingInterfacesError"
           /\ {last.a, last.b} = {a, b}
           /\ name \in Range(last.names)
           /\ last.type = 0
           /\ (Len(types) + 1) \notin (implementations[a] \cup implementations[b])

\* the conflict is found between two successive calls of implements(),
\* with the later-created interface named first
C6_Witness ==
  /\ last.op = "declare"
  /\ last.error = "ConflictingInterfacesError"
  /\ last.cut = 1
  /\ last.args = <<2, 1>>
  /\ \E name \in AllNames : OwnClash(1, 2, name)

----------------------------------------------------------------------------
(* C4 *)

\* C4: a class statement that fails (in its class body, in validation or in
\* the override check) leaves every implementations set as it was, and a
\* set holds only classes whose statement succeeded.
C4_NoPartialRegistration ==
  /\ [](\A i \in Ifaces : implementations[i] \subseteq 1..Len(types))
  /\ [][(declared' # declared /\ last'.error # "none")
          => (implementations' = implementations /\ types' = types)]_vars

\* a failed validation or override check while a class is registered
C4_Witness ==
  /\ last.op = "declare"
  /\ last.error \in {"ImplementationError", "RuntimeError"}
  /\ \E i \in Ifaces : implementations[i] # {}

----------------------------------------------------------------------------
(* C5 *)

\* C5: every class whose statement succeeded is in the implementations set
\* of every interface that remains after reduction, of every ancestor of
\* those, and so of every interface its implements-list names; no step
\* changes the membership of a class that existed before the step.
C5_Registered ==
  /\ [](\A t \in 1..Len(types) :
          /\ \A j \in Range(reduce_interfaces(types[t].implements)) :
               \A i \in Range(interfaces[j].mro) : t \in implementations[i]
          /\ \A i \in Range(types[t].implements) : t \in implementations[i])
  /\ [][\A i \in 1..Len(implementations), t \in 1..Len(types) :
          (t \in implementations[i]) <=> (t \in implementations'[i])]_vars

\* the second class of the run names an interface that reduction drops,
\* and the first class is registered somewhere
C5_Witness ==
  /\ last.op = "declare"
  /\ last.type = 2
  /\ Len(reduce_interfaces(types[2].implements)) < Len(types[2].implements)
  /\ \A i \in Range(types[2].implements) : 2 \in implementations[i]
  /\ \E i \in Ifaces : 1 \in implementations[i]

----------------------------------------------------------------------------
(* C7, C8 *)

Related(a, b) == issubclass(a, b) \/ issubclass(b, a)

\* C7: the list reduce_interfaces returns is no longer than its input and
\* no two of its interfaces are related by subtyping.
C7_ReducedUnrelated ==
  last.op = "reduce" =>
    /\ Len(last.result) <= Len(last.args)
    /\ \A j, k \in 1..Len(last.result) :
         j # k => ~Related(last.result[j], last.result[k])

\* C8: for two distinct interfaces A and B, reduce_interfaces([A, B]) is
\* [B] when B subtypes A, [A] when A subtypes B, and [A, B] otherwise.
C8_ReducePair ==
  (last.op = "reduce" /\ Len(last.args) = 2 /\ last.args[1] # last.args[2]) =>
    LET A == last.args[1]
        B == last.args[2]
    IN last.result = IF issubclass(B, A) THEN <<B>>
                     ELSE IF issubclass(A, B) THEN <<A>>
                     ELSE <<A, B>>

\* the pair [A, B] with B a subtype of A was reduced to [B]
C8_Witness ==
  /\ last.op = "reduce"
  /\ Len(last.args) = 2
  /\ last.args[1] # last.args[2]
  /\ issubclass(last.args[2], last.args[1])
  /\ last.result = <<last.args[2]>>

----------------------------------------------------------------------------
(* C9, C10 *)

\* C9: for interfaces one of which extends the other, directly or through
\* other interfaces, get_conflicting_members is empty in both directions.
C9_SubtypeNoConflict ==
  (last.op = "conflicts" /\ last.a # last.b /\ Related(last.a, last.b)) =>
    /\ last.names = <<>>
    /\ get_conflicting_members(last.b, last.a) = <<>>

\* the call compared an interface with one that extends it through a third
\* and declares anew, in its own body, a name the first declares
C9_Witness ==
  /\ last.op = "conflicts"
  /\ last.a # last.b
  /\ issubclass(last.b, last.a)
  /\ last.a \notin Range(interfaces[last.b].bases)
  /\ \E name \in AllNames :
       /\ IsMember(interfaces[last.a].ns[name])
       /\ IsMember(interfaces[last.b].ns[name])
  /\ last.names = <<>>

\* C10: for interfaces whose sets of member names are disjoint,
\* get_conflicting_members is empty.
C10_DisjointNoConflict ==
  ( /\ last.op = "conflicts"
    /\ Range(members_of(last.a)) \cap Range(members_of(last.b)) = {} )
    => last.names = <<>>

----------------------------------------------------------------------------
(* C11 *)

\* C11: implemented_by(I, candidate) is true exactly when the candidate is
\* an instance of a created Implementation class whose implements-list
\* holds I or an interface that has I among its ancestors; it is false for
\* a value that is no such instance and for a class whose list holds only
\* proper ancestors of I and interfaces unrelated to I.
C11_ImplementedBy ==
  last.op = "implemented_by" =>
    LET I == last.a
        list == IF last.type = 0 THEN <<>> ELSE types[last.type].implements
    IN /\ last.answer <=>
            /\ last.type \in 1..Len(types)
            /\ \E j \in Range(list) : I \in Range(interfaces[j].mro)
       /\ last.type = 0 => ~last.answer
       /\ (\A j \in Range(list) : j # I /\ I \notin Range(interfaces[j].mro))
            => ~last.answer

\* the query was answered with true for an interface that the class does
\* not list itself: the list holds a subtype of it
C11_Witness ==
  /\ last.op = "implemented_by"
  /\ last.answer
  /\ last.type # 0
  /\ last.a \notin Range(types[last.type].implements)

----------------------------------------------------------------------------
(* C12 *)

PropertyMember(i, name) ==
  hasattr(i, name) /\ getattr(i, name).kind = "Property"

\* every member of the remaining interfaces other than name of the k-th
\* one is satisfied by the class body, and the remaining interfaces that
\* have name all resolve it to one member
OthersSatisfied(k, name) ==
  /\ Offenders \subseteq {k}
  /\ \A j \in 1..Len(LastReduced) :
       hasattr(LastReduced[j], name) =>
         OwnerOf(LastReduced[j], name) = OwnerOf(LastReduced[k], name)
  /\ \A n \in Range(members_of(LastReduced[k])) \ {name} :
       CheckMember(LastAttrs, LastReduced[k], n) = NoError

\* C12: for a Property member of a remaining interface whose getter has a
\* default that is not final and whose setter and deleter the interface
\* leaves out, a class body that assigns a property with only a setter is
\* accepted by validation, and the property set on the class has the
\* interface's default as getter, the class body's function as setter and
\* no deleter.
C12_SetterOnly ==
  ReachedMetanew =>
    \A k \in 1..Len(LastReduced), name \in AllNames :
      LET I == LastReduced[k]
          member == getattr(I, name)
      IN ( /\ PropertyMember(I, name)
           /\ member.getter_impl = "impl" /\ ~member.getter_final
           /\ member.setter_impl = "NotImplemented"
           /\ member.deleter_impl = "NotImplemented"
           /\ last.body[name] = RawProperty("absent", "plain", "absent")
           /\ OthersSatisfied(k, name) )
         => /\ last.error = "none"
            /\ types[last.type].ns[name].k = "property"
            /\ types[last.type].ns[name].fget = OwnerOf(I, name)
            /\ types[last.type].ns[name].fset = 0
            /\ types[last.type].ns[name].fdel = -1

\* a class was created from a body with a setter-only property for a
\* member that has just a default getter
C12_Witness ==
  /\ ReachedMetanew
  /\ last.error = "none"
  /\ last.body["m"] = RawProperty("absent", "plain", "absent")
  /\ \E k \in 1..Len(LastReduced) :
       /\ PropertyMember(LastReduced[k], "m")
       /\ getattr(LastReduced[k], "m").getter_impl = "impl"
       /\ ~getattr(LastReduced[k], "m").getter_final
       /\ getattr(LastReduced[k], "m").setter_impl = "NotImplemented"
       /\ getattr(LastReduced[k], "m").deleter_impl = "NotImplemented"
       /\ types[last.type].ns["m"].fget = LastReduced[k]

----------------------------------------------------------------------------
(* C13 *)

\* a slot that satisfy must refuse: a final one given a function, or one
\* without a default given none
SlotFails(concrete, impl, final) ==
  \/ final /\ concrete # -1
  \/ impl = "None" /\ concrete = -1

\* the slot of the property satisfy should return: the concrete function,
\* else the default of the declaring interface, else nothing
SlotExpected(concrete, impl, owner) ==
  IF concrete # -1 THEN concrete
  ELSE IF impl = "impl" THEN owner
  ELSE -1

SatisfyMessages ==
  {"getter must not be implemented", "setter must not be implemented",
   "deleter must not be implemented",
   "missing getter", "missing setter", "missing deleter"}

\* C13: for a Property member of a remaining interface and a class body
\* that assigns a property to its name, with every other member satisfied:
\* when a final slot is given a function or a slot without default is given
\* none, the class statement ends in an ImplementationError for that
\* interface with exactly one entry for the member, which is the failure
\* of satisfy; otherwise the class is created and each slot of its property
\* is the concrete function if given, else the default if there is one,
\* else empty.  No other exception comes out of satisfy.
C13_Satisfy ==
  ReachedMetanew =>
    \A k \in 1..Len(LastReduced), name \in AllNames :
      LET I == LastReduced[k]
          member == getattr(I, name)
          value == last.body[name]
          owner == OwnerOf(I, name)
          fails == \/ SlotFails(value.fget, member.getter_impl, member.getter_final)
                   \/ SlotFails(value.fset, member.setter_impl, member.setter_final)
                   \/ SlotFails(value.fdel, member.deleter_impl, member.deleter_final)
      IN ( /\ PropertyMember(I, name)
           /\ value.k = "property"
           /\ OthersSatisfied(k, name) )
         => /\ last.error \in {"none", "ImplementationError"}
            /\ fails =>
                 /\ last.error = "ImplementationError"
                 /\ last.interface = I
                 /\ Cardinality({e \in 1..Len(last.errors) :
                                   last.errors[e].name = name}) = 1
                 /\ \A e \in 1..Len(last.errors) :
                      last.errors[e].name = name =>
                        last.errors[e].what \in SatisfyMessages
            /\ ~fails =>
                 /\ last.error = "none"
                 /\ types[last.type].ns[name].k = "property"
                 /\ types[last.type].ns[name].fget =
                      SlotExpected(value.fget, member.getter_impl, owner)
                 /\ types[last.type].ns[name].fset =
                      SlotExpected(value.fset, member.setter_impl, owner)
                 /\ types[last.type].ns[name].fdel =
                      SlotExpected(value.fdel, member.deleter_impl, owner)

\* satisfy refused a property because its deleter is final, while the
\* getter came from the class body and the setter had a default
C13_Witness ==
  /\ ReachedMetanew
  /\ last.error = "ImplementationError"
  /\ last.errors = <<Error("deleter must not be implemented", "m")>>
  /\ last.body["m"].fget # -1
  /\ \E k \in 1..Len(LastReduced) :
       /\ PropertyMember(LastReduced[k], "m")
       /\ getattr(LastReduced[k], "m").setter_impl = "impl"
       /\ getattr(LastReduced[k], "m").deleter_final

----------------------------------------------------------------------------
(* C14 *)

\* each of the three slots of the member has a default of the interface
AllSlotsDefault(member) ==
  /\ member.getter_impl = "impl"
  /\ member.setter_impl = "impl"
  /\ member.deleter_impl = "impl"

\* no slot of the member is required: the getter has a default, and the
\* setter and the deleter each have a default or are left out
NoSlotRequired(member) ==
  /\ member.getter_impl = "impl"
  /\ member.setter_impl \in {"impl", "NotImplemented"}
  /\ member.deleter_impl \in {"impl", "NotImplemented"}

\* the member has a default getter and nothing else
OnlyGetterDefault(member) ==
  /\ member.getter_impl = "impl"
  /\ member.setter_impl = "NotImplemented"
  /\ member.deleter_impl = "NotImplemented"

MissingProperty(name) == Error("missing property", name) \in Range(last.errors)

\* C14 as stated: is_pure_default holds exactly when all three slots have a
\* default; a class body that omits the member is rejected with a "missing
\* property" entry exactly when is_pure_default is false; a property with
\* only a getter default cannot be omitted.
C14_AsStated ==
  ReachedMetanew =>
    \A k \in 1..Len(LastReduced), name \in AllNames :
      LET member == getattr(LastReduced[k], name)
      IN ( /\ PropertyMember(LastReduced[k], name)
           /\ last.body[name].k = "none"
           /\ OthersSatisfied(k, name) )
         => /\ is_pure_default(member) <=> AllSlotsDefault(member)
            /\ MissingProperty(name) <=> ~is_pure_default(member)
            /\ OnlyGetterDefault(member) => MissingProperty(name)

\* C14, amended: is_pure_default holds exactly when no slot is required,
\* that is when the getter has a default and the setter and the deleter
\* each have a default or are left out by the interface; a class body that
\* omits the member, every other member being satisfied, is rejected with
\* a "missing property" entry exactly when is_pure_default is false; a
\* property with only a getter default can be omitted, and the class is
\* then created without an attribute of that name.
C14_PureDefault ==
  ReachedMetanew =>
    \A k \in 1..Len(LastReduced), name \in AllNames :
      LET member == getattr(LastReduced[k], name)
      IN ( /\ PropertyMember(LastReduced[k], name)
           /\ last.body[name].k = "none"
           /\ OthersSatisfied(k, name) )
         => /\ is_pure_default(member) <=> NoSlotRequired(member)
            /\ MissingProperty(name) <=> ~is_pure_default(member)
            /\ MissingProperty(name) =>
                 /\ last.error = "ImplementationError"
                 /\ last.interface = LastReduced[k]
            /\ OnlyGetterDefault(member) =>
                 /\ last.error = "none"
                 /\ types[last.type].ns[name].k = "none"

\* a class was created from a body that omits a property with only a
\* getter default
C14_Witness ==
  /\ ReachedMetanew
  /\ last.error = "none"
  /\ last.body["m"].k = "none"
  /\ \E k \in 1..Len(LastReduced) :
       /\ PropertyMember(LastReduced[k], "m")
       /\ OnlyGetterDefault(getattr(LastReduced[k], "m"))

----------------------------------------------------------------------------
(* C15 *)

\* every member of the interfaces of list is a method, and the class body
\* supplies a function for each required one, leaves out each final one,
\* and leaves out or overrides each other default one
SuppliesRequired(list) ==
  \A k \in 1..Len(list) :
    \A name \in Range(members_of(list[k])) :
      LET member == getattr(list[k], name)
      IN /\ member.kind = "Method"
         /\ IF ~member.impl THEN last.body[name].k = "func"
            ELSE IF member.final THEN last.body[name].k = "none"
            ELSE last.body[name].k \in {"none", "func"}

\* a final method of a remaining interface is the same member for every
\* remaining interface that has a method of that name
FinalsAgreed ==
  \A j, k \in 1..Len(LastReduced), name \in AllNames :
    ( /\ FinalMethod(LastReduced[k], name)
      /\ hasattr(LastReduced[j], name)
      /\ getattr(LastReduced[j], name).kind = "Method" )
      => OwnerOf(LastReduced[j], name) = OwnerOf(LastReduced[k], name)

\* name is a default method of i that is not final, and the class body
\* leaves it out
OmittedDefault(i, name) ==
  /\ hasattr(i, name)
  /\ getattr(i, name).kind = "Method"
  /\ getattr(i, name).impl
  /\ ~getattr(i, name).final
  /\ last.body[name].k = "none"

\* the first remaining interface that has a default method called name
FirstDefault(name) ==
  LastReduced[SetMin({k \in 1..Len(LastReduced) :
                        /\ hasattr(LastReduced[k], name)
                        /\ getattr(LastReduced[k], name).kind = "Method"
                        /\ getattr(LastReduced[k], name).impl})]

\* C15 as stated: a class statement that supplies every required method of
\* the interfaces it lists and omits some default non-final methods creates
\* the class; each omitted method of the class is the default of the
\* listed interface, each supplied function is kept, and the class is in
\* the implementations set of each listed interface.
C15_AsStated ==
  ( /\ ReachedMetanew
    /\ SuppliesRequired(LastDeclared)
    /\ \E i \in Range(LastDeclared), name \in AllNames : OmittedDefault(i, name) )
    => /\ last.error = "none"
       /\ \A i \in Range(LastDeclared), name \in AllNames :
            /\ OmittedDefault(i, name) =>
                 types[last.type].ns[name] = DefaultFunction(i, name)
            /\ last.body[name].k = "func" =>
                 types[last.type].ns[name] = last.body[name]
            /\ last.type \in implementations[i]

\* C15, amended: a class statement that supplies every required method of
\* the interfaces remaining after reduction, leaves out their final methods
\* (each of which is one member for all remaining interfaces) and omits
\* some of their default non-final methods creates the class; each omitted
\* method of the class
\* is the default of the first remaining interface, in the order of the
\* reduced list, that has a default method of that name; each supplied
\* function is kept; the class is in the implementations set of every
\* listed interface.
C15_DefaultsKept ==
  ( /\ ReachedMetanew
    /\ SuppliesRequired(LastReduced)
    /\ FinalsAgreed
    /\ \E i \in Range(LastReduced), name \in AllNames : OmittedDefault(i, name) )
    => /\ last.error = "none"
       /\ \A name \in AllNames :
            /\ (\E i \in Range(LastReduced) : OmittedDefault(i, name)) =>
                 types[last.type].ns[name] = DefaultFunction(FirstDefault(name), name)
            /\ last.body[name].k = "func" =>
                 types[last.type].ns[name] = last.body[name]
       /\ \A i \in Range(LastDeclared) : last.type \in implementations[i]

\* a class was created that supplies a required method, overrides one
\* default method and leaves out another
C15_Witness ==
  /\ ReachedMetanew
  /\ last.error = "none"
  /\ SuppliesRequired(LastReduced)
  /\ \E i \in Range(LastReduced), name \in AllNames :
       /\ OmittedDefault(i, name)
       /\ types[last.type].ns[name] = DefaultFunction(i, name)
  /\ \E i \in Range(LastReduced), name \in AllNames :
       /\ hasattr(i, name)
       /\ getattr(i, name).kind = "Method"
       /\ last.body[name].k = "func"
       /\ types[last.type].ns[name] = last.body[name]

----------------------------------------------------------------------------
(* C16 *)

\* the positions of last.calls that call hook as found on interface i
CallsOf(hook, i) ==
  {c \in 1..Len(last.calls) :
     last.calls[c].hook = hook /\ last.calls[c].interface = i}

HookNames == {"__init__", "__constructed__"}

\* interface i has a hook function, its own or one of an ancestor interface
HasHook(i, hook) == \E a \in Range(interfaces[i].mro) :
                      interfaces[a].ns[hook].kind # "none"

\* no __constructed__ call comes before an __init__ call, and the calls of
\* one hook follow the order of list
InOrder(list) ==
  \A c, d \in 1..Len(last.calls) :
    c < d =>
      /\ ~(last.calls[c].hook = "__constructed__" /\ last.calls[d].hook = "__init__")
      /\ last.calls[c].hook = last.calls[d].hook =>
           \E j, k \in 1..Len(list) :
             j < k /\ list[j] = last.calls[c].interface
                   /\ list[k] = last.calls[d].interface

\* C16 as stated: constructing an instance runs the __init__ hooks, then
\* the __constructed__ hooks, once per interface that has one, in list
\* order, and the interfaces whose hooks run are those of the reduced
\* implements-list.
C16_AsStated ==
  last.op = "construct" =>
    LET reduced == reduce_interfaces(types[last.type].implements)
    IN /\ InOrder(reduced)
       /\ \A hook \in HookNames, i \in Ifaces :
            Cardinality(CallsOf(hook, i)) =
              IF i \in Range(reduced) /\ HasHook(i, hook) THEN 1 ELSE 0

\* C16, amended: constructing an instance runs, for each interface of the
\* implements-list as the class body declared it (not reduced) and in its
\* order, the __init__ function that interface defines or inherits from an
\* ancestor interface, once per listed interface, and only then, in the
\* same way, the __constructed__ functions; a hook of an interface
\* therefore runs once for each listed interface that has it, twice when
\* an interface and a sub-interface that inherits it are both listed.
C16_HookOrder ==
  last.op = "construct" =>
    LET list == types[last.type].implements
    IN /\ InOrder(list)
       /\ \A hook \in HookNames, i \in Ifaces :
            Cardinality(CallsOf(hook, i)) =
              IF i \in Range(list) /\ HasHook(i, hook) THEN 1 ELSE 0
       /\ \A c \in 1..Len(last.calls) :
            /\ last.calls[c].owner \in Range(interfaces[last.calls[c].interface].mro)
            /\ interfaces[last.calls[c].owner].ns[last.calls[c].hook].kind # "none"

\* an instance was constructed of a class that lists an interface and a
\* sub-interface of it; the __init__ of the first ran twice, and after it
\* a __constructed__ hook
C16_Witness ==
  /\ last.op = "construct"
  /\ Len(last.calls) >= 3
  /\ last.calls[1].hook = "__init__"
  /\ last.calls[2].hook = "__init__"
  /\ last.calls[1].owner = last.calls[2].owner
  /\ last.calls[1].interface # last.calls[2].interface
  /\ last.calls[3].hook = "__constructed__"

----------------------------------------------------------------------------
(* C17 *)

\* the functions of the class body that are tagged @override
Tagged == {f \in AllNames : last.body[f].k = "func" /\ last.body[f].tag = "override"}

\* f is the name of a Method or Attribute member of a remaining interface,
\* and neither private nor the name of a constructor
Matched(f) ==
  /\ f \notin PrivateNames
  /\ f \notin {"__new__", "__init__"}
  /\ \E i \in Range(LastReduced) :
       \E a \in Range(interfaces[i].mro) :
         /\ interfaces[a].ns[f].kind # "none"
         /\ OwnerOf(i, f) = a
         /\ interfaces[a].ns[f].kind \in {"Method", "Attribute"}

\* f is the name of a Property member of a remaining interface
MatchesProperty(f) ==
  \E i \in Range(LastReduced) : PropertyMember(i, f)

\* the class of the statement was not created and is in no set
NotRegistered ==
  /\ last.type = 0
  /\ \A i \in Ifaces : (Len(types) + 1) \notin implementations[i]

\* C17 as stated: a tagged function that matches a visible Method or
\* Attribute member of a remaining interface is not what the override
\* error names; one that matches none makes the class statement end in the
\* override error naming it, with the class not registered; one that
\* matches only a Property member never passes.
C17_AsStated ==
  ReachedMetanew =>
    \A f \in Tagged :
      /\ Matched(f) => ~(last.error = "RuntimeError" /\ last.names = <<f>>)
      /\ ~Matched(f) =>
           /\ last.error = "RuntimeError"
           /\ last.names = <<f>>
           /\ NotRegistered
      /\ (MatchesProperty(f) /\ ~Matched(f)) => last.error # "none"

\* C17, amended: the override check runs only when validation has found
\* every remaining interface satisfied.  It then passes when every tagged
\* function matches a visible Method or Attribute member of a remaining
\* interface, and otherwise the class statement ends in the override error,
\* which names one tagged function that matches none (the first in the
\* order of the class body), with the class not registered.  A tagged
\* function that matches a member is never named.  A tagged function whose
\* name is that of a Property member of a remaining interface never
\* passes: validation rejects it with an ImplementationError.
C17_OverrideCheck ==
  ReachedMetanew =>
    LET Unmatched == {f \in Tagged : ~Matched(f)}
    IN /\ last.error = "RuntimeError" =>
            /\ Offenders = {}
            /\ \E f \in Unmatched : last.names = <<f>>
            /\ NotRegistered
       /\ (Offenders = {} /\ Unmatched # {}) => last.error = "RuntimeError"
       /\ (Offenders = {} /\ Unmatched = {}) => last.error = "none"
       /\ \A f \in Tagged :
            MatchesProperty(f) =>
              /\ last.error = "ImplementationError"
              /\ NotRegistered

\* the override error named n while the class body also tags m, which
\* matches an Attribute member
C17_Witness ==
  /\ ReachedMetanew
  /\ last.error = "RuntimeError"
  /\ last.names = <<"n">>
  /\ "m" \in Tagged
  /\ \E i \in Range(LastReduced) : getattr(i, "m").kind = "Attribute"

----------------------------------------------------------------------------
(* C18 *)

\* C18: in every reachable state, for every class T that was created and
\* every interface I, T is in the implementations set of I exactly when
\* T.implements(I) is true.
C18_RegistryAgreesWithQuery ==
  \A T \in 1..Len(types), I \in Ifaces :
    (T \in implementations[I]) <=> Implementation_implements(T, I)

\* a second class was created whose list reduction shortened; it is in the
\* set of an interface that the first class is not in
C18_Witness ==
  /\ last.op = "declare"
  /\ last.type = 2
  /\ Len(reduce_interfaces(types[2].implements)) < Len(types[2].implements)
  /\ \E I \in Ifaces :
       /\ 2 \in implementations[I]
       /\ Implementation_implements(2, I)
       /\ 1 \notin implementations[I]
       /\ ~Implementation_implements(1, I)

====
